---- MODULE Spec2Model ----
(***************************************************************************)
(* Observability pipeline of the TikTok automation system:                 *)
(*   - the asynchronous logger (src/core/logging/logger.py): bounded log   *)
(*     queue, LogQueueHandler.emit, AsyncLogWorker.run/stop,               *)
(*     SystemLogger.shutdown;                                              *)
(*   - the alert manager and the metrics collector                         *)
(*     (src/core/monitoring/dashboard.py).                                 *)
(* Each subsystem has its own specification over the shared variables; the *)
(* variables of the other subsystems stay at their initial values.         *)
(***************************************************************************)
EXTENDS Integers, Sequences, FiniteSets, TLC

VARIABLES
    \* ---- logger.py ----
    log_queue,          \* SystemLogger.log_queue: the records waiting, oldest first
    unfinished_tasks,   \* queue.Queue.unfinished_tasks (put increments, task_done decrements)
    next_record,        \* id of the next record a producer hands to the facade
    dropped,            \* records rejected by put_nowait (queue.Full swallowed), in order
    last_emit,          \* how the latest LogQueueHandler.emit call ended
    running,            \* AsyncLogWorker.running
    w_pc,               \* position of AsyncLogWorker.run
    w_record,           \* the record the worker holds (0: none)
    w_handler,          \* index in self.handlers of the handler served next
    emitted,            \* per handler: the records whose handler.emit returned, in order
    worker_errors,      \* <<record, handler>> pairs whose handler.emit raised
    sd_pc,              \* position of SystemLogger.shutdown
    queue_at_stop,      \* records accepted and not yet dequeued when stop() ran
    \* ---- dashboard.py, AlertManager and /api/system_status ----
    rules,              \* AlertManager.rules
    active_alerts,      \* AlertManager.active_alerts: the entries of the dict
    alert_events,       \* the system_logger.log_with_details calls of the alert manager
    samples_seen,       \* the samples check_alerts has started to evaluate, in order
    clock,              \* datetime.now() as a count of the batches collected
    callers,            \* the request contexts that serve /api/system_status
    sample_budget,      \* samples the environment still produces in this run
    sample_pool,        \* the values the metric sources produce in this run
    a_pc,               \* per request context: position in get_system_status
    a_batch,            \* per request context: current_metrics
    a_mi,               \* per request context: index of `metric` in the batch
    a_ri,               \* per request context: index of `rule` in self.rules
    a_snap,             \* per request context: keys and event count when `metric` began
    a_resp,             \* per request context: what get_active_alerts has read so far
    \* ---- dashboard.py, MetricsCollector ----
    c_running,          \* MetricsCollector.running
    c_thread,           \* MetricsCollector.thread: the loop thread it refers to (0: None)
    loop_pc,            \* per loop thread: position in _collection_loop
    loop_ticks,         \* per loop thread: ticks (collect and store) it has made
    stop_seen,          \* per loop thread: stop_collection ran while the thread was alive
    late_ticks,         \* per loop thread: ticks begun after such a stop_collection
    collector_events,   \* the log_system_event calls of start_collection/stop_collection
    cc_pc,              \* per caller: position in start_collection or stop_collection
    cc_result,          \* per caller: how its latest start_collection call ended
    c_calls,            \* start_collection and stop_collection calls made so far
    \* ---- dashboard.py, collect_system_metrics ----
    sources,            \* per metric source: readable, nothing to report, or failing
    utc_now,            \* the current instant, in hours since the first day's midnight UTC
    utc_offset,         \* offset of the host's local time zone from UTC, in hours
    col_batch,          \* what the latest collect_system_metrics call returned
    col_errors,         \* the error messages that call logged
    \* ---- dashboard.py, the metrics table (metrics.db) ----
    store,              \* the committed rows of table metrics, in rowid order
    l_batch,            \* per loop thread: the batch its store_metrics call was given
    l_txn,              \* per loop thread: the rows its latest transaction inserted
    tick_errors,        \* <<loop thread, tick, message>> of the errors the ticks logged
    q_result,           \* what the latest get_metrics call returned
    \* ---- logger.py, the files of the log directory ----
    log_dir,            \* the log files: 0 is system.log, i is system.log.i
    file_writes,        \* records the file handler has been given so far
    last_line,          \* the line the file handler wrote last
    search,             \* the latest search_logs call: its arguments and what it returned
    sweep               \* the latest cleanup_old_logs call: its arguments and how it ended

logVars == <<log_queue, unfinished_tasks, next_record, dropped, last_emit, running,
             w_pc, w_record, w_handler, emitted, worker_errors, sd_pc, queue_at_stop>>

alertVars == <<rules, active_alerts, alert_events, samples_seen, clock, callers,
               sample_budget, sample_pool, a_pc, a_batch, a_mi, a_ri, a_snap,
               a_resp>>

collVars == <<c_running, c_thread, loop_pc, loop_ticks, stop_seen, late_ticks,
              collector_events, cc_pc, cc_result, c_calls>>

srcVars == <<sources, utc_now, utc_offset, col_batch, col_errors>>

tableVars == <<store, l_batch, l_txn, tick_errors, q_result>>

fileVars == <<log_dir, file_writes, last_line, search, sweep>>

vars == <<logVars, alertVars, collVars, srcVars, tableVars, fileVars>>

----------------------------------------------------------------------------
\* Bounds of the model

\* capacity of the log queue (queue.Queue(maxsize=1000) in the program, scaled down)
maxsize == 2

\* number of records the producers hand to the facade in one run
MaxRecords == 4

\* samples one run of sequential evaluations hands to check_alerts
MaxSamples == 4

\* samples a run with two concurrent status requests hands to check_alerts
MaxConcSamples == 2

\* start_collection and stop_collection calls in one run
MaxCollectorCalls == 3

\* ticks one collection loop makes in one run
MaxTicks == 2

\* size at which the file handler rolls over (config.logging.max_log_size, 10 MiB
\* in the program, scaled down; a line counts the characters of its message)
max_log_size == 3

\* backups the file handler keeps (config.logging.backup_count)
backup_count == 5

\* records the file handler is given in one run
MaxWrites == 8
\* samples evaluated under the custom rules
MaxRuleSamples == 3
\* lines of system.log when it is searched
MaxLines == 3
\* files of the log directory when it is swept
MaxFiles == 3

----------------------------------------------------------------------------
\* Logger: src/core/logging/logger.py

Range(s) == { s[i] : i \in DOMAIN s }

\* self.handlers in registration order: the rotating file handler, then the console
handlers == <<"file", "console">>

NoRecord == 0

\* a step of the logger leaves the alert manager and the collector alone
LogOnly == UNCHANGED <<alertVars, collVars, srcVars, tableVars, fileVars>>

\* a queue created without a capacity is never full
Unbounded(q) == FALSE

\* queue.Queue.full() as put_nowait tests it: maxsize > 0 and qsize() >= maxsize
Full(q) == maxsize > 0 /\ Len(q) >= maxsize

\* an emit that makes room by discarding the oldest queued record
EvictOldest(q, record) == IF Full(q) THEN Append(Tail(q), record) ELSE Append(q, record)

\* the queue after LogQueueHandler.emit(record): put_nowait appends, and on
\* queue.Full the except clause passes, leaving the queue as it was
QueueAfterEmit(q, record) == IF Full(q) THEN q ELSE Append(q, record)

\* how emit ends for the caller: the record is queued, or queue.Full is caught
EmitOutcome(q) == IF Full(q) THEN "dropped" ELSE "queued"

\* LogQueueHandler.emit, called by any producer through the root logger; it has
\* no wait in it, so it is enabled whatever the queue holds
Emit ==
    /\ LogOnly
    /\ next_record <= MaxRecords
    /\ log_queue' = QueueAfterEmit(log_queue, next_record)
    /\ last_emit' = EmitOutcome(log_queue)
    /\ dropped' = IF Full(log_queue) THEN Append(dropped, next_record) ELSE dropped
    /\ unfinished_tasks' = IF Full(log_queue) THEN unfinished_tasks ELSE unfinished_tasks + 1
    /\ next_record' = next_record + 1
    /\ UNCHANGED <<running, w_pc, w_record, w_handler, emitted, worker_errors, sd_pc,
                   queue_at_stop>>

\* AsyncLogWorker.run, `while self.running:`
WorkerWhile ==
    /\ LogOnly
    /\ w_pc = "while"
    /\ w_pc' = IF running THEN "get" ELSE "exited"
    /\ UNCHANGED <<log_queue, unfinished_tasks, next_record, dropped, last_emit, running,
                   w_record, w_handler, emitted, worker_errors, sd_pc, queue_at_stop>>

\* `record = self.log_queue.get(timeout=1)` returning the oldest record
WorkerGet ==
    /\ LogOnly
    /\ w_pc = "get"
    /\ log_queue # <<>>
    /\ w_record' = Head(log_queue)
    /\ log_queue' = Tail(log_queue)
    /\ w_handler' = 1
    /\ w_pc' = "emit"
    /\ UNCHANGED <<unfinished_tasks, next_record, dropped, last_emit, running, emitted,
                   worker_errors, sd_pc, queue_at_stop>>

\* the get timing out on an empty queue: queue.Empty, `continue`
WorkerGetEmpty ==
    /\ LogOnly
    /\ w_pc = "get"
    /\ log_queue = <<>>
    /\ w_pc' = "while"
    /\ UNCHANGED <<log_queue, unfinished_tasks, next_record, dropped, last_emit, running,
                   w_record, w_handler, emitted, worker_errors, sd_pc, queue_at_stop>>

\* `handler.emit(record)` returning for the handler in turn
WorkerEmit ==
    /\ LogOnly
    /\ w_pc = "emit"
    /\ emitted' = [emitted EXCEPT ![w_handler] = Append(@, w_record)]
    /\ IF w_handler < Len(handlers)
          THEN /\ w_handler' = w_handler + 1
               /\ w_pc' = "emit"
          ELSE /\ w_handler' = w_handler
               /\ w_pc' = "task_done"
    /\ UNCHANGED <<log_queue, unfinished_tasks, next_record, dropped, last_emit, running,
                   w_record, worker_errors, sd_pc, queue_at_stop>>

\* `handler.emit(record)` raising: `except Exception as e: print(...)`, which
\* leaves the for loop and skips task_done; the loop goes on
WorkerEmitRaises ==
    /\ LogOnly
    /\ w_pc = "emit"
    /\ worker_errors' = Append(worker_errors, <<w_record, w_handler>>)
    /\ w_record' = NoRecord
    /\ w_pc' = "while"
    /\ UNCHANGED <<log_queue, unfinished_tasks, next_record, dropped, last_emit, running,
                   w_handler, emitted, sd_pc, queue_at_stop>>

\* `self.log_queue.task_done()`
WorkerTaskDone ==
    /\ LogOnly
    /\ w_pc = "task_done"
    /\ unfinished_tasks' = unfinished_tasks - 1
    /\ w_record' = NoRecord
    /\ w_pc' = "while"
    /\ UNCHANGED <<log_queue, next_record, dropped, last_emit, running, w_handler,
                   emitted, worker_errors, sd_pc, queue_at_stop>>

\* SystemLogger.shutdown: `self.worker.stop()` sets running to False
ShutdownStop ==
    /\ LogOnly
    /\ sd_pc = "idle"
    /\ running' = FALSE
    /\ queue_at_stop' = log_queue
    /\ sd_pc' = "join"
    /\ UNCHANGED <<log_queue, unfinished_tasks, next_record, dropped, last_emit, w_pc,
                   w_record, w_handler, emitted, worker_errors>>

\* `self.worker.join(timeout=5)`: returns when the worker has exited, or after
\* the timeout with the worker still alive
ShutdownJoin ==
    /\ LogOnly
    /\ sd_pc = "join"
    /\ sd_pc' = IF w_pc = "exited" THEN "joined" ELSE "join_timeout"
    /\ UNCHANGED <<log_queue, unfinished_tasks, next_record, dropped, last_emit, running,
                   w_pc, w_record, w_handler, emitted, worker_errors, queue_at_stop>>

\* SystemLogger.__init__ and _setup_logging: empty queue, worker started
InitLog ==
    /\ log_queue = <<>>
    /\ unfinished_tasks = 0
    /\ next_record = 1
    /\ dropped = <<>>
    /\ last_emit = "none"
    /\ running = TRUE
    /\ w_pc = "while"
    /\ w_record = NoRecord
    /\ w_handler = 1
    /\ emitted = [h \in 1..Len(handlers) |-> <<>>]
    /\ worker_errors = <<>>
    /\ sd_pc = "idle"
    /\ queue_at_stop = <<>>

Worker ==
    \/ WorkerWhile
    \/ WorkerGet
    \/ WorkerGetEmpty
    \/ WorkerEmit
    \/ WorkerEmitRaises
    \/ WorkerTaskDone

NextLog ==
    \/ Emit
    \/ Worker
    \/ ShutdownStop
    \/ ShutdownJoin



----------------------------------------------------------------------------
\* Alert manager: src/core/monitoring/dashboard.py

\* AlertRule(name, metric, operator, threshold, severity, enabled=True)
AlertRule(name, metric, operator, threshold, severity) ==
    [name |-> name, metric |-> metric, operator |-> operator, threshold |-> threshold,
     severity |-> severity, enabled |-> TRUE]

\* AlertManager._load_default_rules
DefaultRules ==
    << AlertRule("High CPU Usage", "system.load_avg", ">", 2, "warning"),
       AlertRule("High Memory Usage", "system.memory_usage", ">", 80, "warning"),
       AlertRule("Critical Memory Usage", "system.memory_usage", ">", 90, "critical"),
       AlertRule("High Disk Usage", "system.disk_usage", ">", 85, "warning"),
       AlertRule("Critical Disk Usage", "system.disk_usage", ">", 95, "critical") >>

\* the default rules with the rule at index i switched off (AlertRule.enabled)
Disabled(rs, i) == [rs EXCEPT ![i].enabled = FALSE]

\* collect_system_metrics appends at most one sample per metric, in this order
\* (the disk and the other application metrics go the way of these three and are
\* left out of the inputs)
MetricOrder == <<"system.load_avg", "system.memory_usage", "content.video_count">>

\* the values a collected metric takes in the model
SampleValues ==
    { <<"system.load_avg", 3>>,
      <<"system.memory_usage", 60>>, <<"system.memory_usage", 70>>,
      <<"system.memory_usage", 85>>, <<"system.memory_usage", 90>>,
      <<"system.memory_usage", 95>>,
      <<"content.video_count", 3>> }

\* SystemMetric(timestamp, metric_name, metric_value, ...)
SystemMetric(timestamp, nv) ==
    [timestamp |-> timestamp, metric_name |-> nv[1], metric_value |-> nv[2]]

\* the values of the memory metric fed to two concurrent status requests
ConcSampleValues ==
    { <<"system.memory_usage", 70>>, <<"system.memory_usage", 85>>,
      <<"system.memory_usage", 95>> }

\* what one metric source contributes to the batch: nothing, or one sample
Collected(pool, name) == {<<>>} \cup { <<nv>> : nv \in { x \in pool : x[1] = name } }

\* the non-empty batches collect_system_metrics can return: any of the metrics
\* may be missing, the others keep their order
Batches(pool) ==
    { a \o b \o c : a \in Collected(pool, MetricOrder[1]),
                    b \in Collected(pool, MetricOrder[2]),
                    c \in Collected(pool, MetricOrder[3]) } \ {<<>>}

\* a check that takes every operator for `>=`
CheckGreaterOrEqual(rule, value) == value >= rule.threshold

\* AlertRule.check: the operator looked up by its string, False when unknown
AlertRule_check(rule, value) ==
    CASE rule.operator = ">"  -> value > rule.threshold
      [] rule.operator = "<"  -> value < rule.threshold
      [] rule.operator = ">=" -> value >= rule.threshold
      [] rule.operator = "<=" -> value <= rule.threshold
      [] rule.operator = "==" -> value = rule.threshold
      [] OTHER -> FALSE

\* a key that names the metric only
KeyByMetric(rule) == rule.metric

\* alert_key = f"{rule.name}_{rule.metric}"
alert_key(rule) == rule.name \o "_" \o rule.metric

\* the keys of the dict
Keys(alerts) == { e.key : e \in alerts }

\* a trigger that does not look for an existing entry
KeyAlwaysAbsent(key, alerts) == TRUE

\* `alert_key not in self.active_alerts`
KeyAbsent(key, alerts) == key \notin Keys(alerts)

\* `alert_key in self.active_alerts`
KeyPresent(key, alerts) == key \in Keys(alerts)

\* a container that keeps the old entry beside the new one (a list append)
DictAppend(alerts, key, value) == alerts \cup {[key |-> key] @@ value}

\* `self.active_alerts[alert_key] = {...}`: a dict assignment replaces the entry
DictSet(alerts, key, value) ==
    { e \in alerts : e.key # key } \cup {[key |-> key] @@ value}

\* `del self.active_alerts[alert_key]`
DictDel(alerts, key) == { e \in alerts : e.key # key }

\* level of the trigger event: "WARNING" if rule.severity == "warning" else "CRITICAL"
TriggerLevel(rule) == IF rule.severity = "warning" THEN "WARNING" ELSE "CRITICAL"

\* check_alerts: does the rule at index ri take part for this metric
Applies(rs, ri, metric) == rs[ri].enabled /\ rs[ri].metric = metric.metric_name

\* the next rule from index ri on that is enabled and on the metric (0: none)
RECURSIVE NextRule(_, _, _)
NextRule(rs, ri, metric) ==
    IF ri > Len(rs) THEN 0
    ELSE IF Applies(rs, ri, metric) THEN ri
    ELSE NextRule(rs, ri + 1, metric)

\* where check_alerts goes for the rule: _trigger_alert or _resolve_alert
RulePc(rs, ri, metric) ==
    IF ri = 0 THEN "metric_done"
    ELSE IF AlertRule_check(rs[ri], metric.metric_value) THEN "trig_test"
    ELSE "res_test"

Metric(t) == a_batch[t][a_mi[t]]
Rule(t) == rules[a_ri[t]]

\* a step of the alert manager leaves the logger and the collector alone
AlertOnly == UNCHANGED <<logVars, collVars, srcVars, tableVars, fileVars>>

\* the request moves on to the next applicable rule of the inner loop
ToNextRule(t) ==
    LET ri == NextRule(rules, a_ri[t] + 1, Metric(t)) IN
    /\ a_ri' = [a_ri EXCEPT ![t] = ri]
    /\ a_pc' = [a_pc EXCEPT ![t] = RulePc(rules, ri, Metric(t))]

\* get_system_status: collect_system_metrics returns current_metrics, and
\* check_alerts(current_metrics) is entered
StartRequest(t, batch) ==
    /\ a_pc[t] = "idle"
    /\ sample_budget >= Len(batch)
    /\ AlertOnly
    /\ sample_budget' = sample_budget - Len(batch)
    /\ clock' = clock + 1
    /\ a_batch' = [a_batch EXCEPT ![t] = [i \in 1..Len(batch) |-> SystemMetric(clock + 1, batch[i])]]
    /\ a_mi' = [a_mi EXCEPT ![t] = 1]
    /\ a_pc' = [a_pc EXCEPT ![t] = "metric"]
    /\ UNCHANGED <<rules, active_alerts, alert_events, samples_seen, callers, sample_pool,
                   a_ri, a_snap, a_resp>>

\* `for metric in metrics:` taking the metric at a_mi, `for rule in self.rules:`
\* up to the first rule that is enabled and on this metric
BeginMetric(t) ==
    /\ AlertOnly
    /\ a_pc[t] = "metric"
    /\ samples_seen' = Append(samples_seen, Metric(t))
    /\ a_snap' = [a_snap EXCEPT ![t] = [keys |-> Keys(active_alerts), events |-> Len(alert_events)]]
    /\ LET ri == NextRule(rules, 1, Metric(t)) IN
         /\ a_ri' = [a_ri EXCEPT ![t] = ri]
         /\ a_pc' = [a_pc EXCEPT ![t] = RulePc(rules, ri, Metric(t))]
    /\ UNCHANGED <<rules, active_alerts, alert_events, clock, callers, sample_budget, sample_pool,
                   a_batch, a_mi, a_resp>>

\* _trigger_alert: `if alert_key not in self.active_alerts:`
TrigTest(t) ==
    /\ AlertOnly
    /\ a_pc[t] = "trig_test"
    /\ IF KeyAbsent(alert_key(Rule(t)), active_alerts)
          THEN /\ a_pc' = [a_pc EXCEPT ![t] = "trig_set"]
               /\ a_ri' = a_ri
          ELSE ToNextRule(t)
    /\ UNCHANGED <<rules, active_alerts, alert_events, samples_seen, clock, callers,
                   sample_budget, sample_pool, a_batch, a_mi, a_snap, a_resp>>

\* _trigger_alert: `self.active_alerts[alert_key] = {...}`
TrigSet(t) ==
    /\ AlertOnly
    /\ a_pc[t] = "trig_set"
    /\ active_alerts' = DictSet(active_alerts, alert_key(Rule(t)),
                                [rule |-> a_ri[t],
                                 triggered_at |-> Metric(t).timestamp,
                                 current_value |-> Metric(t).metric_value])
    /\ a_pc' = [a_pc EXCEPT ![t] = "trig_log"]
    /\ UNCHANGED <<rules, alert_events, samples_seen, clock, callers, sample_budget, sample_pool,
                   a_batch, a_mi, a_ri, a_snap, a_resp>>

\* _trigger_alert: system_logger.log_with_details("alerts", level, "Alert triggered: ...")
TrigLog(t) ==
    /\ AlertOnly
    /\ a_pc[t] = "trig_log"
    /\ alert_events' = Append(alert_events,
                              [type |-> "trigger", rule |-> Rule(t).name,
                               metric |-> Rule(t).metric, level |-> TriggerLevel(Rule(t)),
                               current_value |-> Metric(t).metric_value])
    /\ ToNextRule(t)
    /\ UNCHANGED <<rules, active_alerts, samples_seen, clock, callers, sample_budget, sample_pool,
                   a_batch, a_mi, a_snap, a_resp>>

\* _resolve_alert: `if alert_key in self.active_alerts:`
ResTest(t) ==
    /\ AlertOnly
    /\ a_pc[t] = "res_test"
    /\ IF KeyPresent(alert_key(Rule(t)), active_alerts)
          THEN /\ a_pc' = [a_pc EXCEPT ![t] = "res_del"]
               /\ a_ri' = a_ri
          ELSE ToNextRule(t)
    /\ UNCHANGED <<rules, active_alerts, alert_events, samples_seen, clock, callers,
                   sample_budget, sample_pool, a_batch, a_mi, a_snap, a_resp>>

\* _resolve_alert: `del self.active_alerts[alert_key]`; a key that is gone raises
\* KeyError, which get_system_status catches as the error response
ResDel(t) ==
    /\ AlertOnly
    /\ a_pc[t] = "res_del"
    /\ IF alert_key(Rule(t)) \in Keys(active_alerts)
          THEN /\ active_alerts' = DictDel(active_alerts, alert_key(Rule(t)))
               /\ a_pc' = [a_pc EXCEPT ![t] = "res_log"]
          ELSE /\ active_alerts' = active_alerts
               /\ a_pc' = [a_pc EXCEPT ![t] = "error"]
    /\ UNCHANGED <<rules, alert_events, samples_seen, clock, callers, sample_budget, sample_pool,
                   a_batch, a_mi, a_ri, a_snap, a_resp>>

\* _resolve_alert: system_logger.log_with_details("alerts", "INFO", "Alert resolved: ...")
ResLog(t) ==
    /\ AlertOnly
    /\ a_pc[t] = "res_log"
    /\ alert_events' = Append(alert_events,
                              [type |-> "resolve", rule |-> Rule(t).name,
                               metric |-> Rule(t).metric, level |-> "INFO",
                               current_value |-> Metric(t).metric_value])
    /\ ToNextRule(t)
    /\ UNCHANGED <<rules, active_alerts, samples_seen, clock, callers, sample_budget, sample_pool,
                   a_batch, a_mi, a_snap, a_resp>>

\* the inner loop is over for this metric: the outer loop takes the next metric,
\* or check_alerts returns and get_active_alerts starts to iterate over
\* self.active_alerts.values()
EndMetric(t) ==
    /\ AlertOnly
    /\ a_pc[t] = "metric_done"
    /\ IF a_mi[t] < Len(a_batch[t])
          THEN /\ a_mi' = [a_mi EXCEPT ![t] = a_mi[t] + 1]
               /\ a_pc' = [a_pc EXCEPT ![t] = "metric"]
               /\ a_resp' = a_resp
          ELSE /\ a_mi' = a_mi
               /\ a_pc' = [a_pc EXCEPT ![t] = "alerts"]
               /\ a_resp' = [a_resp EXCEPT ![t] = [iter |-> active_alerts]]
    /\ UNCHANGED <<rules, active_alerts, alert_events, samples_seen, clock, callers,
                   sample_budget, sample_pool, a_batch, a_ri, a_snap>>

\* Timestamps are texts. At the granularity of the model a text is the date,
\* the character between date and time, and the hour; the dates and the hours
\* are zero-padded in the program, so they compare as numbers.
\* `metric.timestamp.isoformat()`: "YYYY-MM-DDTHH:..." ('T' is character 84)
isoformat(t) == <<t \div 24, 84, t % 24>>

\* what get_active_alerts reports of an entry
AlertView(rs, e) ==
    [name |-> rs[e.rule].name, metric |-> rs[e.rule].metric, severity |-> rs[e.rule].severity,
     threshold |-> rs[e.rule].threshold, current_value |-> e.current_value,
     triggered_at |-> isoformat(e.triggered_at)]

\* get_active_alerts: the iteration ends. A dict whose size changed meanwhile
\* raises RuntimeError, which get_system_status catches as the error response;
\* otherwise the entries present throughout are reported, and any of those
\* that came or went
GetAlertsDone(t) ==
    /\ AlertOnly
    /\ a_pc[t] = "alerts"
    /\ IF Cardinality(active_alerts) # Cardinality(a_resp[t].iter)
          THEN /\ a_pc' = [a_pc EXCEPT ![t] = "error"]
               /\ a_resp' = a_resp
          ELSE /\ a_pc' = [a_pc EXCEPT ![t] = "status"]
               /\ \E seen \in SUBSET (a_resp[t].iter \cup active_alerts) :
                     /\ (a_resp[t].iter \cap active_alerts) \subseteq seen
                     /\ a_resp' = [a_resp EXCEPT ![t] =
                                      [alerts |-> { AlertView(rules, e) : e \in seen }]]
    /\ UNCHANGED <<rules, active_alerts, alert_events, samples_seen, clock, callers,
                   sample_budget, sample_pool, a_batch, a_mi, a_ri, a_snap>>

\* "healthy" if not alert_manager.active_alerts else "warning"
StatusOf(alerts) == IF alerts = {} THEN "healthy" ELSE "warning"

\* the response get_system_status builds: the error response, or the status
\* response, whose "status" reads self.active_alerts again
Response(t) ==
    IF a_pc[t] = "error" THEN [status |-> "error"]
    ELSE [alerts |-> a_resp[t].alerts, status |-> StatusOf(active_alerts)]

\* get_system_status returns Response(t) and the request context is free again
Respond(t) ==
    /\ AlertOnly
    /\ a_pc[t] \in {"status", "error"}
    /\ a_resp' = [a_resp EXCEPT ![t] = [status |-> "none"]]
    /\ a_pc' = [a_pc EXCEPT ![t] = "idle"]
    /\ UNCHANGED <<rules, active_alerts, alert_events, samples_seen, clock, callers,
                   sample_budget, sample_pool, a_batch, a_mi, a_ri, a_snap>>

Contexts == {1, 2}

\* AlertManager.__init__ and the request contexts before any request
InitAlertState ==
    /\ active_alerts = {}
    /\ alert_events = <<>>
    /\ samples_seen = <<>>
    /\ clock = 0
    /\ a_pc = [t \in Contexts |-> "idle"]
    /\ a_batch = [t \in Contexts |-> <<>>]
    /\ a_mi = [t \in Contexts |-> 1]
    /\ a_ri = [t \in Contexts |-> 0]
    /\ a_snap = [t \in Contexts |-> [keys |-> {}, events |-> 0]]
    /\ a_resp = [t \in Contexts |-> [status |-> "none"]]

\* the steps of a request once it has its batch
AlertStep ==
    \/ \E t \in callers : BeginMetric(t)
    \/ \E t \in callers : TrigTest(t)
    \/ \E t \in callers : TrigSet(t)
    \/ \E t \in callers : TrigLog(t)
    \/ \E t \in callers : ResTest(t)
    \/ \E t \in callers : ResDel(t)
    \/ \E t \in callers : ResLog(t)
    \/ \E t \in callers : EndMetric(t)
    \/ \E t \in callers : GetAlertsDone(t)
    \/ \E t \in callers : Respond(t)

NextAlert ==
    \/ \E t \in callers : \E batch \in Batches(sample_pool) : StartRequest(t, batch)
    \/ AlertStep

\* rules as an installation may configure them: one of severity info, and two
\* whose names and metrics differ and whose keys are the same text
CustomRules ==
    << AlertRule("Videos Ready", "content.video_count", ">", 2, "info"),
       AlertRule("Queue", "depth_total", ">", 5, "warning"),
       AlertRule("Queue_depth", "total", ">", 5, "critical") >>

\* the batches handed to check_alerts under these rules: one sample, or two
\* samples of different metrics
CustomBatches(pool) ==
    { <<a>> : a \in pool } \cup
    { <<ab[1], ab[2]>> : ab \in { x \in pool \X pool : x[1][1] # x[2][1] } }

NextRules ==
    \/ \E t \in callers : \E batch \in CustomBatches(sample_pool) : StartRequest(t, batch)
    \/ AlertStep

----------------------------------------------------------------------------
\* Metrics collector: src/core/monitoring/dashboard.py

\* the contexts that call start_collection and stop_collection
CollCallers == {1, 2}

\* the loop threads start_collection can create in one run
LoopIds == 1..MaxCollectorCalls

NoThread == 0

\* a loop thread that was started and has not left _collection_loop
Alive(l) == loop_pc[l] \in {"while", "tick", "sleep"}

\* the thread object a start_collection call creates next
NewLoop == Cardinality({ l \in LoopIds : loop_pc[l] # "unborn" }) + 1

\* a start_collection without the guard
NeverRunning(flag) == FALSE

\* start_collection: `if self.running: return`
AlreadyRunning(flag) == flag

\* a step of the collector leaves the logger and the alert manager alone
CollOnly == UNCHANGED <<logVars, alertVars, srcVars, tableVars, fileVars>>

\* a caller enters start_collection
StartCall(c) ==
    /\ cc_pc[c] = "idle"
    /\ c_calls < MaxCollectorCalls
    /\ CollOnly
    /\ c_calls' = c_calls + 1
    /\ cc_pc' = [cc_pc EXCEPT ![c] = "start_check"]
    /\ UNCHANGED <<c_running, c_thread, loop_pc, loop_ticks, stop_seen, late_ticks,
                   collector_events, cc_result>>

\* start_collection: `if self.running: return`
StartCheck(c) ==
    /\ cc_pc[c] = "start_check"
    /\ CollOnly
    /\ IF AlreadyRunning(c_running)
          THEN /\ cc_pc' = [cc_pc EXCEPT ![c] = "idle"]
               /\ cc_result' = [cc_result EXCEPT ![c] = "noop"]
          ELSE /\ cc_pc' = [cc_pc EXCEPT ![c] = "start_set"]
               /\ cc_result' = cc_result
    /\ UNCHANGED <<c_running, c_thread, loop_pc, loop_ticks, stop_seen, late_ticks,
                   collector_events, c_calls>>

\* start_collection: `self.running = True`
StartSet(c) ==
    /\ cc_pc[c] = "start_set"
    /\ CollOnly
    /\ c_running' = TRUE
    /\ cc_pc' = [cc_pc EXCEPT ![c] = "start_thread"]
    /\ UNCHANGED <<c_thread, loop_pc, loop_ticks, stop_seen, late_ticks,
                   collector_events, cc_result, c_calls>>

\* start_collection: `self.thread = threading.Thread(...)`, `self.thread.start()`
StartThread(c) ==
    /\ cc_pc[c] = "start_thread"
    /\ CollOnly
    /\ c_thread' = NewLoop
    /\ loop_pc' = [loop_pc EXCEPT ![NewLoop] = "while"]
    /\ cc_pc' = [cc_pc EXCEPT ![c] = "start_log"]
    /\ UNCHANGED <<c_running, loop_ticks, stop_seen, late_ticks, collector_events,
                   cc_result, c_calls>>

\* start_collection: log_system_event("monitoring", "Started metrics collection")
StartLog(c) ==
    /\ cc_pc[c] = "start_log"
    /\ CollOnly
    /\ collector_events' = Append(collector_events, "Started metrics collection")
    /\ cc_pc' = [cc_pc EXCEPT ![c] = "idle"]
    /\ cc_result' = [cc_result EXCEPT ![c] = "started"]
    /\ UNCHANGED <<c_running, c_thread, loop_pc, loop_ticks, stop_seen, late_ticks,
                   c_calls>>

\* stop_collection: `self.running = False`
StopSet(c) ==
    /\ cc_pc[c] = "idle"
    /\ c_calls < MaxCollectorCalls
    /\ CollOnly
    /\ c_calls' = c_calls + 1
    /\ c_running' = FALSE
    /\ stop_seen' = [l \in LoopIds |-> stop_seen[l] \/ Alive(l)]
    /\ cc_pc' = [cc_pc EXCEPT ![c] = "stop_join"]
    /\ UNCHANGED <<c_thread, loop_pc, loop_ticks, late_ticks, collector_events, cc_result>>

\* stop_collection: `if self.thread: self.thread.join(timeout=5)`, which returns
\* when the thread has ended or when the timeout is over, whichever is first
StopJoin(c) ==
    /\ cc_pc[c] = "stop_join"
    /\ CollOnly
    /\ cc_pc' = [cc_pc EXCEPT ![c] = "stop_log"]
    /\ UNCHANGED <<c_running, c_thread, loop_pc, loop_ticks, stop_seen, late_ticks,
                   collector_events, cc_result, c_calls>>

\* stop_collection: log_system_event("monitoring", "Stopped metrics collection")
StopLog(c) ==
    /\ cc_pc[c] = "stop_log"
    /\ CollOnly
    /\ collector_events' = Append(collector_events, "Stopped metrics collection")
    /\ cc_pc' = [cc_pc EXCEPT ![c] = "idle"]
    /\ UNCHANGED <<c_running, c_thread, loop_pc, loop_ticks, stop_seen, late_ticks,
                   cc_result, c_calls>>

\* _collection_loop: `while self.running:`
LoopWhile(l) ==
    /\ loop_pc[l] = "while"
    /\ c_running => loop_ticks[l] < MaxTicks
    /\ CollOnly
    /\ loop_pc' = [loop_pc EXCEPT ![l] = IF c_running THEN "tick" ELSE "exited"]
    /\ late_ticks' = [late_ticks EXCEPT ![l] = IF c_running /\ stop_seen[l] THEN @ + 1 ELSE @]
    /\ UNCHANGED <<c_running, c_thread, loop_ticks, stop_seen, collector_events, cc_pc,
                   cc_result, c_calls>>

\* _collection_loop: collect_system_metrics and store_metrics, both of which
\* catch their own failures; then `time.sleep(interval)` begins
LoopTick(l) ==
    /\ loop_pc[l] = "tick"
    /\ CollOnly
    /\ loop_ticks' = [loop_ticks EXCEPT ![l] = @ + 1]
    /\ loop_pc' = [loop_pc EXCEPT ![l] = "sleep"]
    /\ UNCHANGED <<c_running, c_thread, stop_seen, late_ticks, collector_events, cc_pc,
                   cc_result, c_calls>>

\* _collection_loop: `time.sleep(interval)` is over
LoopWake(l) ==
    /\ loop_pc[l] = "sleep"
    /\ CollOnly
    /\ loop_pc' = [loop_pc EXCEPT ![l] = "while"]
    /\ UNCHANGED <<c_running, c_thread, loop_ticks, stop_seen, late_ticks,
                   collector_events, cc_pc, cc_result, c_calls>>

\* MetricsCollector.__init__: not running, no thread
InitCollState ==
    /\ c_running = FALSE
    /\ c_thread = NoThread
    /\ loop_pc = [l \in LoopIds |-> "unborn"]
    /\ loop_ticks = [l \in LoopIds |-> 0]
    /\ stop_seen = [l \in LoopIds |-> FALSE]
    /\ late_ticks = [l \in LoopIds |-> 0]
    /\ collector_events = <<>>
    /\ cc_pc = [c \in CollCallers |-> "idle"]
    /\ cc_result = [c \in CollCallers |-> "none"]
    /\ c_calls = 0

NextCollector ==
    \/ \E c \in CollCallers : StartCall(c)
    \/ \E c \in CollCallers : StartCheck(c)
    \/ \E c \in CollCallers : StartSet(c)
    \/ \E c \in CollCallers : StartThread(c)
    \/ \E c \in CollCallers : StartLog(c)
    \/ \E c \in CollCallers : StopSet(c)
    \/ \E c \in CollCallers : StopJoin(c)
    \/ \E c \in CollCallers : StopLog(c)
    \/ \E l \in LoopIds : LoopWhile(l)
    \/ \E l \in LoopIds : LoopTick(l)
    \/ \E l \in LoopIds : LoopWake(l)

----------------------------------------------------------------------------
\* Metric sources: MetricsCollector.collect_system_metrics and
\* _collect_app_metrics, src/core/monitoring/dashboard.py

\* the sources collect_system_metrics reads itself, in the order it reads them
SystemSources == <<"system.load_avg", "system.memory_usage", "system.disk_usage">>

\* the sources _collect_app_metrics reads, in the order it reads them
AppSources == <<"content.video_count", "api.key_count", "logging.total_size_mb">>

SourceNames == Range(SystemSources) \cup Range(AppSources)

\* what reading a source can do: give a value ("ok"); give nothing without
\* failing ("absent": MemTotal is 0, total_space is 0, the directory or the key
\* file does not exist); raise ("fails"). /proc/loadavg is read without a test,
\* so it gives a value or raises
SourceStatus(name) ==
    IF name = "system.load_avg" THEN {"ok", "fails"} ELSE {"ok", "absent", "fails"}

SourceStates ==
    { st \in [SourceNames -> {"ok", "absent", "fails"}] :
        \A n \in SourceNames : st[n] \in SourceStatus(n) }

\* the value a readable source gives
SourceValue ==
    [ n \in SourceNames |->
        CASE n = "system.load_avg" -> 3
          [] n = "system.memory_usage" -> 85
          [] n = "system.disk_usage" -> 40
          [] n = "content.video_count" -> 3
          [] n = "api.key_count" -> 2
          [] OTHER -> 1 ]

\* `timestamp = datetime.now()`: naive local time, in hours
datetime_now == utc_now + utc_offset

\* the statements of one try block, run in order over the sources from index i:
\* a readable source appends its sample, an absent one appends nothing, and a
\* failing one raises, which leaves the block with the samples appended so far
RECURSIVE Gather(_, _, _, _)
Gather(names, i, st, timestamp) ==
    IF i > Len(names) THEN [metrics |-> <<>>, raised |-> FALSE]
    ELSE IF st[names[i]] = "fails" THEN [metrics |-> <<>>, raised |-> TRUE]
    ELSE LET rest == Gather(names, i + 1, st, timestamp)
             own == IF st[names[i]] = "ok"
                       THEN << SystemMetric(timestamp, <<names[i], SourceValue[names[i]]>>) >>
                       ELSE <<>>
         IN [metrics |-> own \o rest.metrics, raised |-> rest.raised]

\* _collect_app_metrics: its own try; the except clause logs and the samples
\* gathered before the failure are returned
collect_app_metrics(st, timestamp) == Gather(AppSources, 1, st, timestamp)

\* collect_system_metrics: the system sources and the call of
\* _collect_app_metrics are in one try; when a system source raises, the except
\* clause logs and what was gathered before it is returned
collect_system_metrics(st, timestamp) ==
    LET own == Gather(SystemSources, 1, st, timestamp)
    IN IF own.raised THEN own.metrics
       ELSE own.metrics \o collect_app_metrics(st, timestamp).metrics

\* the error messages the call logs on logger "metrics"
collect_errors(st, timestamp) ==
    LET own == Gather(SystemSources, 1, st, timestamp)
    IN IF own.raised THEN <<"Metric collection failed">>
       ELSE IF collect_app_metrics(st, timestamp).raised
               THEN <<"App metrics collection failed">>
               ELSE <<>>

\* a step of the metric sources leaves the other subsystems alone
SrcOnly == UNCHANGED <<logVars, alertVars, collVars, tableVars, fileVars>>

\* a call of collect_system_metrics (from the loop or from /api/system_status)
CollectCall ==
    /\ SrcOnly
    /\ col_batch' = collect_system_metrics(sources, datetime_now)
    /\ col_errors' = collect_errors(sources, datetime_now)
    /\ UNCHANGED <<sources, utc_now, utc_offset>>

\* the host changes: a source becomes readable, absent or failing
SourceChanges ==
    /\ SrcOnly
    /\ \E n \in SourceNames : \E status \in SourceStatus(n) :
           /\ status # sources[n]
           /\ sources' = [sources EXCEPT ![n] = status]
    /\ UNCHANGED <<utc_now, utc_offset, col_batch, col_errors>>

\* before the first call; every source readable, the host on UTC
InitSrcState ==
    /\ sources = [n \in SourceNames |-> "ok"]
    /\ utc_now = 0
    /\ utc_offset = 0
    /\ col_batch = <<>>
    /\ col_errors = <<>>

NextCollect ==
    \/ CollectCall
    \/ SourceChanges

----------------------------------------------------------------------------
\* The metrics table: MetricsCollector.store_metrics, get_metrics and the tick
\* of _collection_loop, src/core/monitoring/dashboard.py

\* SQLite's datetime('now', '-N hours'): UTC, "YYYY-MM-DD HH:MM:SS" (' ' is
\* character 32)
sqlite_datetime(utc, hours) == <<(utc - hours) \div 24, 32, (utc - hours) % 24>>

\* a < b for two TEXT values under SQLite's BINARY collation
TextLess(a, b) ==
    \E i \in 1..Len(a) : a[i] < b[i] /\ \A j \in 1..(i - 1) : a[j] = b[j]

\* the row an INSERT of store_metrics adds; batch, of and at are not columns:
\* they record the store_metrics call the row comes from, the size of that
\* call's batch and the instant of the sample
Row(id, metric, batch, of) ==
    [id |-> id, timestamp |-> isoformat(metric.timestamp),
     metric_name |-> metric.metric_name, metric_value |-> metric.metric_value,
     batch |-> batch, of |-> of, at |-> metric.timestamp - utc_offset]

\* what another connection sees of the table: the committed rows
Visible(rows, pending) == rows

\* a connection that keeps the rows executed before the failure
CommitAlways(rows, pending, raised) == rows \o pending

\* a write that replaces the table by the batch
ReplaceRows(rows, pending, raised) == IF raised THEN rows ELSE pending

\* the end of `with sqlite3.connect(...) as conn:`: the transaction is committed
\* when the block ends normally and rolled back when an exception leaves it
ConnExit(rows, pending, raised) == IF raised THEN rows ELSE rows \o pending

\* ORDER BY timestamp DESC
RECURSIVE OrderByTimestampDesc(_)
OrderByTimestampDesc(rows) ==
    IF rows = <<>> THEN <<>>
    ELSE LET i == CHOOSE i \in DOMAIN rows :
                     \A j \in DOMAIN rows :
                         /\ ~TextLess(rows[i].timestamp, rows[j].timestamp)
                         /\ (j < i => TextLess(rows[j].timestamp, rows[i].timestamp))
         IN <<rows[i]>> \o OrderByTimestampDesc(SubSeq(rows, 1, i - 1) \o
                                                 SubSeq(rows, i + 1, Len(rows)))

\* get_metrics: SELECT * FROM metrics WHERE metric_name = ?
\* AND timestamp > datetime('now', '-{} hours') ORDER BY timestamp DESC
get_metrics(rows, metric_name, hours) ==
    LET Selected(r) == /\ r.metric_name = metric_name
                       /\ TextLess(sqlite_datetime(utc_now, hours), r.timestamp)
    IN OrderByTimestampDesc(SelectSeq(rows, Selected))

\* a step of the sampling loop or of a reader leaves the alert manager and the
\* metric sources alone
TableOnly == UNCHANGED <<alertVars, srcVars, fileVars>>

\* `system_logger.get_logger("metrics").error(...)`: the record goes through
\* the root logger to LogQueueHandler.emit
LogError ==
    /\ log_queue' = QueueAfterEmit(log_queue, next_record)
    /\ last_emit' = EmitOutcome(log_queue)
    /\ dropped' = IF Full(log_queue) THEN Append(dropped, next_record) ELSE dropped
    /\ unfinished_tasks' = IF Full(log_queue) THEN unfinished_tasks ELSE unfinished_tasks + 1
    /\ next_record' = next_record + 1

\* nothing is logged
NoLog == UNCHANGED <<log_queue, last_emit, dropped, unfinished_tasks, next_record>>

\* the rows pending in the open transactions of the loop threads 1..l
RECURSIVE Pending(_)
Pending(l) ==
    IF l = 0 THEN <<>>
    ELSE Pending(l - 1) \o (IF loop_pc[l] = "insert" THEN l_txn[l] ELSE <<>>)

\* a loop thread that an exception ends
ThreadEnds(raised) == IF raised THEN "exited" ELSE "sleep"

\* _collection_loop after store_metrics: a failure was caught on the way (by
\* store_metrics, or else by the loop's own except clause), so in either case
\* `time.sleep(interval)` begins
AfterStore(raised) == "sleep"

\* _collection_loop: `metrics = self.collect_system_metrics()`, which catches
\* and logs the failure of a source; store_metrics is entered with the batch
TickCollect(l) ==
    /\ loop_pc[l] = "tick"
    /\ TableOnly
    /\ loop_ticks' = [loop_ticks EXCEPT ![l] = @ + 1]
    /\ l_batch' = [l_batch EXCEPT ![l] = collect_system_metrics(sources, datetime_now)]
    /\ l_txn' = [l_txn EXCEPT ![l] = <<>>]
    /\ IF collect_errors(sources, datetime_now) # <<>>
          THEN /\ LogError
               /\ tick_errors' = Append(tick_errors,
                      <<l, loop_ticks[l] + 1, collect_errors(sources, datetime_now)[1]>>)
          ELSE /\ NoLog
               /\ tick_errors' = tick_errors
    /\ loop_pc' = [loop_pc EXCEPT ![l] = "insert"]
    /\ UNCHANGED <<running, w_pc, w_record, w_handler, emitted, worker_errors, sd_pc,
                   queue_at_stop, c_running, c_thread, stop_seen, late_ticks,
                   collector_events, cc_pc, cc_result, c_calls, store, q_result>>

\* store_metrics: `conn.execute('INSERT INTO metrics ...')` for the next metric
\* of the batch, inside the connection's transaction
TickInsert(l) ==
    /\ loop_pc[l] = "insert"
    /\ Len(l_txn[l]) < Len(l_batch[l])
    /\ TableOnly
    /\ l_txn' = [l_txn EXCEPT ![l] =
                    Append(@, Row(Len(store) + Len(@) + 1, l_batch[l][Len(@) + 1],
                                  <<l, loop_ticks[l]>>, Len(l_batch[l])))]
    /\ UNCHANGED <<logVars, collVars, store, l_batch, tick_errors, q_result>>

\* store_metrics: sqlite3.connect, an INSERT or the commit raises (the database
\* is locked, the disk is full): the connection's context manager ends the
\* transaction, `except Exception` logs "Metric storage failed", store_metrics
\* returns and the loop goes to `time.sleep(interval)`
TickInsertRaises(l) ==
    /\ loop_pc[l] = "insert"
    /\ TableOnly
    /\ store' = ConnExit(store, l_txn[l], TRUE)
    /\ LogError
    /\ tick_errors' = Append(tick_errors, <<l, loop_ticks[l], "Metric storage failed">>)
    /\ loop_pc' = [loop_pc EXCEPT ![l] = AfterStore(TRUE)]
    /\ UNCHANGED <<running, w_pc, w_record, w_handler, emitted, worker_errors, sd_pc,
                   queue_at_stop, c_running, c_thread, loop_ticks, stop_seen, late_ticks,
                   collector_events, cc_pc, cc_result, c_calls, l_batch, l_txn, q_result>>

\* store_metrics: `conn.commit()` after the last INSERT, the with block ends,
\* and the loop goes to `time.sleep(interval)`
TickCommit(l) ==
    /\ loop_pc[l] = "insert"
    /\ Len(l_txn[l]) = Len(l_batch[l])
    /\ TableOnly
    /\ store' = ConnExit(store, l_txn[l], FALSE)
    /\ loop_pc' = [loop_pc EXCEPT ![l] = AfterStore(FALSE)]
    /\ UNCHANGED <<logVars, c_running, c_thread, loop_ticks, stop_seen, late_ticks,
                   collector_events, cc_pc, cc_result, c_calls, l_batch, l_txn, tick_errors,
                   q_result>>

\* the metric names the dashboard asks for
QueryNames == {"system.load_avg", "system.memory_usage"}

\* /api/metrics: metrics_collector.get_metrics(metric_name, hours), on a
\* connection of its own
GetMetricsCall(metric_name, hours) ==
    /\ TableOnly
    /\ q_result' = get_metrics(Visible(store, Pending(Len(l_txn))), metric_name, hours)
    /\ UNCHANGED <<logVars, collVars, store, l_batch, l_txn, tick_errors>>

\* the windows the dashboard asks for, in hours (24 when the request names none)
QueryHours == {1, 24}

\* the instants, in hours, at which the sampling loop and the dashboard are
\* looked at: day 1 at 00:00, 02:00 and 15:00 UTC, day 2 at 15:00 UTC
Instants == {24, 26, 39, 63}

\* time passes
TimePasses ==
    /\ \E t \in Instants : t > utc_now /\ utc_now' = t
    /\ UNCHANGED <<logVars, alertVars, collVars, tableVars, fileVars, sources, utc_offset,
                   col_batch, col_errors>>

\* MetricsCollector._init_database: the table is created empty
InitTableState ==
    /\ store = <<>>
    /\ l_batch = [l \in LoopIds |-> <<>>]
    /\ l_txn = [l \in LoopIds |-> <<>>]
    /\ tick_errors = <<>>
    /\ q_result = <<>>

\* the steps of one loop thread
LoopSteps(l) ==
    \/ LoopWhile(l)
    \/ TickCollect(l)
    \/ TickInsert(l)
    \/ TickInsertRaises(l)
    \/ TickCommit(l)
    \/ LoopWake(l)

NextQuery ==
    \/ \E l \in LoopIds : LoopWhile(l)
    \/ \E l \in LoopIds : TickCollect(l)
    \/ \E l \in LoopIds : TickInsert(l)
    \/ \E l \in LoopIds : TickCommit(l)
    \/ \E l \in LoopIds : LoopWake(l)
    \/ TimePasses
    \/ \E metric_name \in QueryNames : \E hours \in QueryHours :
           GetMetricsCall(metric_name, hours)

NextStore ==
    \/ \E l \in LoopIds : LoopWhile(l)
    \/ \E l \in LoopIds : TickCollect(l)
    \/ \E l \in LoopIds : TickInsert(l)
    \/ \E l \in LoopIds : TickInsertRaises(l)
    \/ \E l \in LoopIds : TickCommit(l)
    \/ \E l \in LoopIds : LoopWake(l)
    \/ \E metric_name \in QueryNames : GetMetricsCall(metric_name, 24)
    \/ Worker

----------------------------------------------------------------------------
\* The log directory: the rotating file handler of _setup_logging,
\* src/core/logging/logger.py

\* the characters of the messages, and str.lower()
Lower == [c \in {"a", "A", "b", "B"} |-> IF c \in {"a", "A"} THEN "a" ELSE "b"]

\* the line StructuredFormatter.format writes for a record: a JSON object with
\* the timestamp in ISO format (kept in a one-element list; an object without
\* the key has the empty list), the level and the message (a list of characters)
LogLine(t, level, message) ==
    [json |-> "object", timestamp |-> <<isoformat(t)>>, level |-> level, message |-> message]

\* the length of a line
LineSize(line) == IF line.json = "object" THEN Len(line.message) ELSE 1

\* the size of a file: `self.stream.tell()`
RECURSIVE FileSize(_)
FileSize(lines) == IF lines = <<>> THEN 0 ELSE LineSize(Head(lines)) + FileSize(Tail(lines))

\* a file of the directory; gen is not in the file system: it numbers the files
\* in the order they were created
File(gen, lines, mtime) == [gen |-> gen, lines |-> lines, mtime |-> mtime]

\* SystemLogger.get_log_stats: the numbers the logger reports about itself, the
\* queue size and one entry per log file with its size. (total_loggers, the
\* number of names get_logger was asked for, is no function of the queue.)
get_log_stats ==
    [queue_size |-> Len(log_queue),
     log_files |-> [i \in DOMAIN log_dir |-> FileSize(log_dir[i].lines)]]

\* RotatingFileHandler.shouldRollover: the line would bring the file to maxBytes
shouldRollover(dir, line) == FileSize(dir[0].lines) + LineSize(line) >= max_log_size

\* os.rename(dir/src, dir/dst), which replaces dst when it exists
Rename(dir, src, dst) ==
    [i \in (DOMAIN dir \ {src}) \cup {dst} |-> IF i = dst THEN dir[src] ELSE dir[i]]

\* the renames of doRollover from backup i down to 1: system.log.i becomes
\* system.log.(i+1) when it exists
RECURSIVE ShiftBackups(_, _)
ShiftBackups(dir, i) ==
    IF i < 1 THEN dir
    ELSE ShiftBackups(IF i \in DOMAIN dir THEN Rename(dir, i, i + 1) ELSE dir, i - 1)

\* a rollover that renames the last backup too instead of replacing it
RolloverKeepingAll(dir, fresh) == (0 :> fresh) @@ Rename(ShiftBackups(dir, backup_count), 0, 1)

\* RotatingFileHandler.doRollover with backupCount > 0: the backups move up by
\* one (the last one is replaced), system.log becomes system.log.1 and a new
\* system.log is opened
doRollover(dir, fresh) == (0 :> fresh) @@ Rename(ShiftBackups(dir, backup_count - 1), 0, 1)

\* a step of the file handler leaves the rest of the program alone
FileOnly == UNCHANGED <<logVars, alertVars, collVars, srcVars, tableVars>>

\* RotatingFileHandler.emit(record), called by the worker: roll over if the
\* formatted line does not fit, then append the line to system.log
FileEmit(level, message) ==
    /\ file_writes < MaxWrites
    /\ FileOnly
    /\ LET line == LogLine(datetime_now, level, message)
           dir == IF shouldRollover(log_dir, line)
                     THEN doRollover(log_dir, File(file_writes + 2, <<>>, utc_now))
                     ELSE log_dir
       IN /\ log_dir' = [dir EXCEPT ![0].lines = Append(@, line), ![0].mtime = utc_now]
          /\ last_line' = line
    /\ file_writes' = file_writes + 1
    /\ UNCHANGED <<search, sweep>>

\* the handler is created: system.log is opened for appending
InitFileState ==
    /\ log_dir = (0 :> File(1, <<>>, 0))
    /\ file_writes = 0
    /\ last_line = LogLine(0, "INFO", <<>>)
    /\ search = [called |-> FALSE]
    /\ sweep = [called |-> FALSE]

NextRotate == \E message \in {<<"a">>, <<"A", "b">>} : FileEmit("INFO", message)

----------------------------------------------------------------------------
\* SystemLogger.search_logs, src/core/logging/logger.py

\* a line of system.log the formatter did not write: text that is not JSON
\* ("invalid"), JSON that is not an object, such as [] or 17 ("array"), or the
\* object {} without any of the keys ("object")
Malformed(kind) == [json |-> kind, timestamp |-> <<>>, level |-> "None", message |-> <<>>]

\* datetime.fromisoformat(text): the instant the text denotes
fromisoformat(text) == text[1] * 24 + text[3]

\* `query.lower() in entry.get('message', '').lower()`
Contains(query, message) ==
    \E i \in 0..(Len(message) - Len(query)) :
        \A j \in 1..Len(query) : Lower[query[j]] = Lower[message[i + j]]

\* the body of the loop for one line: the entry is appended to the results, the
\* line is passed over (`continue`), or an exception other than JSONDecodeError
\* leaves the loop. level "None" and the empty lists are arguments not given.
LineOutcome(line, f) ==
    IF line.json = "invalid" THEN "continue"                        \* JSONDecodeError
    ELSE IF line.json # "object" THEN "raise"                       \* no .get on a list
    ELSE IF f.level # "None" /\ line.level # f.level THEN "continue"
    ELSE IF f.start_time # <<>> /\ line.timestamp = <<>> THEN "raise"      \* KeyError
    ELSE IF f.start_time # <<>> /\ fromisoformat(line.timestamp[1]) < f.start_time[1]
         THEN "continue"
    ELSE IF f.end_time # <<>> /\ line.timestamp = <<>> THEN "raise"        \* KeyError
    ELSE IF f.end_time # <<>> /\ fromisoformat(line.timestamp[1]) > f.end_time[1]
         THEN "continue"
    ELSE IF Contains(f.query, line.message) THEN "append"
    ELSE "continue"

\* `for line in f:` from line i on, inside the outer try
RECURSIVE ScanLines(_, _, _, _)
ScanLines(lines, i, f, results) ==
    IF i > Len(lines) THEN [results |-> results, raised |-> FALSE]
    ELSE LET outcome == LineOutcome(lines[i], f)
         IN IF outcome = "raise" THEN [results |-> results, raised |-> TRUE]
            ELSE ScanLines(lines, i + 1, f,
                           IF outcome = "append" THEN Append(results, lines[i]) ELSE results)

\* search_logs(query, start_time, end_time, level): system.log only
search_logs(dir, f) ==
    IF 0 \notin DOMAIN dir THEN [results |-> <<>>, raised |-> FALSE]
    ELSE ScanLines(dir[0].lines, 1, f, <<>>)

SearchCall(f) ==
    /\ search' = [called |-> TRUE, f |-> f, results |-> search_logs(log_dir, f).results,
                  raised |-> search_logs(log_dir, f).raised]
    /\ UNCHANGED <<log_dir, file_writes, last_line, sweep>>
    /\ FileOnly

\* the lines system.log may hold when it is searched
SearchLines ==
    { LogLine(24, "INFO", <<"a">>), LogLine(26, "ERROR", <<"A", "b">>),
      LogLine(39, "INFO", <<"b">>),
      Malformed("invalid"), Malformed("array"), Malformed("object") }

SearchArgs ==
    [query : {<<>>, <<"a">>, <<"B">>}, start_time : {<<>>, <<26>>},
     end_time : {<<>>, <<26>>}, level : {"None", "ERROR"}]

\* system.log with some lines, after one rollover: system.log.1 holds a record
InitSearchFiles ==
    /\ \E n \in 0..MaxLines : \E lines \in [1..n -> SearchLines] :
          log_dir = (0 :> File(2, lines, 39)) @@
                    (1 :> File(1, <<LogLine(0, "ERROR", <<"a">>)>>, 0))
    /\ file_writes = 0
    /\ last_line = LogLine(0, "INFO", <<>>)
    /\ search = [called |-> FALSE]
    /\ sweep = [called |-> FALSE]

NextSearch == \E f \in SearchArgs : SearchCall(f)

----------------------------------------------------------------------------
\* SystemLogger.cleanup_old_logs, src/core/logging/logger.py

\* the orders in which `log_dir.glob("*.log*")` may yield the files
GlobOrders(dir) ==
    { o \in [1..Cardinality(DOMAIN dir) -> DOMAIN dir] :
        \A i, j \in DOMAIN o : i # j => o[i] # o[j] }

\* what the file system may refuse during a sweep: nothing, or one operation
\* on one file (`stat()`, `unlink()`)
SweepFaults(dir) == {<<>>} \cup ((DOMAIN dir) \X {"stat", "unlink"})

\* the `for` loop from the i-th file on; st holds the directory, cleaned_count,
\* the events logged, and whether an exception left the loop
RECURSIVE SweepFiles(_, _, _, _, _)
SweepFiles(st, order, i, cutoff_time, fault) ==
    IF i > Len(order) THEN st
    ELSE LET log_file == order[i]
         IN IF fault = <<log_file, "stat">> THEN [st EXCEPT !.raised = TRUE]
            ELSE IF st.dir[log_file].mtime < cutoff_time
            THEN IF fault = <<log_file, "unlink">>
                 THEN SweepFiles([st EXCEPT !.log = Append(@, <<"ERROR", log_file>>)],
                                 order, i + 1, cutoff_time, fault)
                 ELSE SweepFiles([st EXCEPT !.dir = [f \in DOMAIN @ \ {log_file} |-> @[f]],
                                            !.cleaned_count = @ + 1,
                                            !.log = Append(@, <<"cleanup", log_file>>)],
                                 order, i + 1, cutoff_time, fault)
            ELSE SweepFiles(st, order, i + 1, cutoff_time, fault)

\* cleanup_old_logs(days_to_keep) at time `now`; times are in hours
cleanup_old_logs(dir, now, days_to_keep, order, fault) ==
    LET st == SweepFiles([dir |-> dir, cleaned_count |-> 0, log |-> <<>>, raised |-> FALSE],
                         order, 1, now - days_to_keep * 24, fault)
    IN IF ~st.raised /\ st.cleaned_count > 0
          THEN [st EXCEPT !.log = Append(@, <<"cleanup", "total">>)]
          ELSE st

\* a call of cleanup_old_logs: result is <<cleaned_count>> when the call
\* returned and <<>> when an exception left it
SweepCall(days_to_keep, order, fault) ==
    /\ LET st == cleanup_old_logs(log_dir, utc_now, days_to_keep, order, fault)
       IN /\ log_dir' = st.dir
          /\ sweep' = [called |-> TRUE, cutoff_time |-> utc_now - days_to_keep * 24,
                       before |-> log_dir, fault |-> fault, log |-> st.log,
                       result |-> IF st.raised THEN <<>> ELSE <<st.cleaned_count>>]
    /\ UNCHANGED <<file_writes, last_line, search>>
    /\ FileOnly

\* system.log and its backups on the fourth day, each backup written to no
\* later than the file that replaced it
InitSweepFiles ==
    /\ \E n \in 1..MaxFiles : \E mtime \in [0..(n - 1) -> {0, 24, 48, 72}] :
          /\ \A i \in 1..(n - 1) : mtime[i] <= mtime[i - 1]
          /\ log_dir = [i \in 0..(n - 1) |-> File(n - i, <<>>, mtime[i])]
    /\ file_writes = 0
    /\ last_line = LogLine(0, "INFO", <<>>)
    /\ search = [called |-> FALSE]
    /\ sweep = [called |-> FALSE]

NextSweep ==
    \E days_to_keep \in {1, 2} : \E order \in GlobOrders(log_dir) :
        \E fault \in SweepFaults(log_dir) : SweepCall(days_to_keep, order, fault)

----------------------------------------------------------------------------
\* Specifications, one per subsystem

\* evaluations one after another: a single request context
InitAlert ==
    /\ InitLog
    /\ InitFileState
    /\ InitTableState
    /\ InitSrcState
    /\ InitCollState
    /\ InitAlertState
    /\ rules \in {DefaultRules, Disabled(DefaultRules, 3)}
    /\ callers = {1}
    /\ sample_budget = MaxSamples
    /\ sample_pool = SampleValues

\* simultaneous /api/system_status requests: two request contexts
InitAlertConc ==
    /\ InitLog
    /\ InitFileState
    /\ InitTableState
    /\ InitSrcState
    /\ InitCollState
    /\ InitAlertState
    /\ rules \in {DefaultRules, Disabled(DefaultRules, 3)}
    /\ callers = Contexts
    /\ sample_budget = MaxConcSamples
    /\ sample_pool = ConcSampleValues

SpecAlert == InitAlert /\ [][NextAlert]_vars

\* evaluations one after another under the custom rules
InitRules ==
    /\ InitLog
    /\ InitFileState
    /\ InitTableState
    /\ InitSrcState
    /\ InitCollState
    /\ InitAlertState
    /\ rules = CustomRules
    /\ callers = {1}
    /\ sample_budget = MaxRuleSamples
    /\ sample_pool = { <<"content.video_count", 3>>, <<"content.video_count", 1>>,
                       <<"depth_total", 9>>, <<"total", 9>>, <<"total", 1>> }

SpecRules == InitRules /\ [][NextRules]_vars

SpecAlertConc == InitAlertConc /\ [][NextAlert]_vars

\* the state the other subsystems are left in while only the collector runs
InitCollector ==
    /\ InitLog
    /\ InitFileState
    /\ InitTableState
    /\ InitSrcState
    /\ InitAlertState
    /\ rules = DefaultRules
    /\ callers = {}
    /\ sample_budget = 0
    /\ sample_pool = {}
    /\ InitCollState

SpecCollector == InitCollector /\ [][NextCollector]_vars

\* The logger on its own: no status request is served
InitLogger ==
    /\ InitLog
    /\ InitFileState
    /\ InitTableState
    /\ InitSrcState
    /\ InitCollState
    /\ InitAlertState
    /\ rules = DefaultRules
    /\ callers = {}
    /\ sample_budget = 0
    /\ sample_pool = {}

SpecLog == InitLogger /\ [][NextLog]_vars

\* the worker thread is scheduled as long as it has a step to take
FairSpecLog == SpecLog /\ WF_vars(Worker)

\* collect_system_metrics on its own, on a host whose sources come and go
InitCollect ==
    /\ InitLog
    /\ InitFileState
    /\ InitTableState
    /\ InitCollState
    /\ InitAlertState
    /\ rules = DefaultRules
    /\ callers = {}
    /\ sample_budget = 0
    /\ sample_pool = {}
    /\ sources \in SourceStates
    /\ utc_now = 0
    /\ utc_offset = 0
    /\ col_batch = <<>>
    /\ col_errors = <<>>

SpecCollect == InitCollect /\ [][NextCollect]_vars

\* the collector after start_dashboard's start_collection call: the flag set,
\* one loop thread about to test it
InitStarted ==
    /\ c_running = TRUE
    /\ c_thread = 1
    /\ loop_pc = [l \in LoopIds |-> IF l = 1 THEN "while" ELSE "unborn"]
    /\ loop_ticks = [l \in LoopIds |-> 0]
    /\ stop_seen = [l \in LoopIds |-> FALSE]
    /\ late_ticks = [l \in LoopIds |-> 0]
    /\ collector_events = <<"Started metrics collection">>
    /\ cc_pc = [c \in CollCallers |-> "idle"]
    /\ cc_result = [c \in CollCallers |-> IF c = 1 THEN "started" ELSE "none"]
    /\ c_calls = 1

\* the sampling loop with the table, the readers of the table and the log
\* worker that receives the loop's error records, in a process that is given
\* no stop signal
InitStore ==
    /\ InitLog
    /\ InitFileState
    /\ InitStarted
    /\ InitAlertState
    /\ InitTableState
    /\ rules = DefaultRules
    /\ callers = {}
    /\ sample_budget = 0
    /\ sample_pool = {}
    /\ sources \in { st \in SourceStates :
                        /\ \A n \in Range(AppSources) : st[n] = "absent"
                        /\ st["system.load_avg"] = "ok" /\ st["system.disk_usage"] = "ok"
                        /\ st["system.memory_usage"] # "absent" }
    /\ utc_now = 24
    /\ utc_offset = 0
    /\ col_batch = <<>>
    /\ col_errors = <<>>

SpecStore == InitStore /\ [][NextStore]_vars

\* the sampling loop and the queries of the dashboard as time passes, on a host
\* whose local time is UTC or five hours behind it; nothing fails
InitQuery ==
    /\ InitLog
    /\ InitFileState
    /\ InitStarted
    /\ InitAlertState
    /\ InitTableState
    /\ rules = DefaultRules
    /\ callers = {}
    /\ sample_budget = 0
    /\ sample_pool = {}
    /\ sources = [n \in SourceNames |->
                     IF n \in QueryNames THEN "ok" ELSE "absent"]
    /\ utc_now = 24
    /\ utc_offset \in {0, -5}
    /\ col_batch = <<>>
    /\ col_errors = <<>>

SpecQuery == InitQuery /\ [][NextQuery]_vars

\* the file handler on its own, given one record after another
InitRotate ==
    /\ InitLog
    /\ InitFileState
    /\ InitTableState
    /\ InitSrcState
    /\ InitCollState
    /\ InitAlertState
    /\ rules = DefaultRules
    /\ callers = {}
    /\ sample_budget = 0
    /\ sample_pool = {}

SpecRotate == InitRotate /\ [][NextRotate]_vars

\* searches of a log file found on disk
InitSearch ==
    /\ InitLog
    /\ InitSearchFiles
    /\ InitTableState
    /\ InitSrcState
    /\ InitCollState
    /\ InitAlertState
    /\ rules = DefaultRules
    /\ callers = {}
    /\ sample_budget = 0
    /\ sample_pool = {}

SpecSearch == InitSearch /\ [][NextSearch]_vars

\* retention sweeps of a log directory
InitSweep ==
    /\ InitLog
    /\ InitSweepFiles
    /\ InitTableState
    /\ InitCollState
    /\ InitAlertState
    /\ rules = DefaultRules
    /\ callers = {}
    /\ sample_budget = 0
    /\ sample_pool = {}
    /\ sources = [n \in SourceNames |-> "ok"]
    /\ utc_now = 72
    /\ utc_offset = 0
    /\ col_batch = <<>>
    /\ col_errors = <<>>

SpecSweep == InitSweep /\ [][NextSweep]_vars

\* the worker thread and the collector's loop thread are scheduled while they
\* have a step to take
FairSpecStore ==
    SpecStore /\ WF_vars(Worker) /\ WF_vars(LoopSteps(c_thread))

----------------------------------------------------------------------------
\* Properties of the logger (checked under SpecLog)

IsPrefix(s, t) == Len(s) <= Len(t) /\ SubSeq(t, 1, Len(s)) = s

\* the records handed to the facade so far, in order
Handed == [i \in 1..(next_record - 1) |-> i]

\* C1: in every reachable state the log queue holds at most `maxsize` records,
\* whatever the producers and the worker do.
C1_QueueWithinCapacity == Len(log_queue) <= maxsize

C1_Witness == Len(log_queue) = maxsize /\ Len(dropped) >= 1

\* C2 (as claimed): when at most `maxsize` records were handed over and no stop
\* was signalled, every handler has received a prefix of them, each once and in
\* order, and all of them once the queue is drained and the worker holds none.
C2_EveryRecordToEverySinkFIFO ==
    (next_record - 1 <= maxsize /\ running /\ sd_pc = "idle") =>
        \A h \in 1..Len(handlers) :
            /\ IsPrefix(emitted[h], Handed)
            /\ (log_queue = <<>> /\ w_record = NoRecord) => emitted[h] = Handed

\* the same statement for the runs in which no handler.emit raised
C2_WhenNoSinkRaises == worker_errors = <<>> => C2_EveryRecordToEverySinkFIFO

\* C3: an emit on a full queue is enabled (it does not wait), ends with the
\* exception swallowed, loses the new record only and leaves the queued
\* records as they were, in the same order.
C3_FullQueueDropsOnlyNewRecord ==
    /\ [](next_record <= MaxRecords => ENABLED Emit)
    /\ [][ (next_record' = next_record + 1 /\ Len(log_queue) = maxsize) =>
             /\ log_queue' = log_queue
             /\ last_emit' = "dropped"
             /\ dropped' = Append(dropped, next_record) ]_vars

C3_Witness == last_emit = "dropped" /\ Len(log_queue) = maxsize /\ dropped # <<>>

\* delivery of the record was attempted: handler.emit was called with it
Attempted(r) ==
    \/ \E h \in 1..Len(handlers) : r \in Range(emitted[h])
    \/ \E i \in DOMAIN worker_errors : worker_errors[i][1] = r

\* C10 (as claimed): when the worker has exited, delivery was attempted for
\* every record that was in the queue when the stop signal was given.
C10_QueuedRecordsAttemptedBeforeExit ==
    w_pc = "exited" => \A r \in Range(queue_at_stop) : Attempted(r)

\* once stop is signalled the worker leaves its loop (under FairSpecLog)
WorkerStops == (~running) ~> (w_pc = "exited")

----------------------------------------------------------------------------
\* Properties of the alert manager (checked under SpecAlert, one request at a
\* time, and SpecAlertConc, two requests at once)

\* the events logged for a rule, oldest first
EventsOfRule(name) == SelectSeq(alert_events, LAMBDA e : e.rule = name)

EventTypes(evs) == [i \in DOMAIN evs |-> evs[i].type]

EventValues(evs) == [i \in DOMAIN evs |-> <<evs[i].type, evs[i].current_value>>]

\* trigger, resolve, trigger, ... starting with a trigger
Alternates(evs) ==
    \A i \in DOMAIN evs : evs[i].type = IF i % 2 = 1 THEN "trigger" ELSE "resolve"

\* the values of the memory samples evaluated so far
MemorySamples ==
    LET ms == SelectSeq(samples_seen, LAMBDA m : m.metric_name = "system.memory_usage")
    IN  [i \in DOMAIN ms |-> ms[i].metric_value]

\* the request context is between two samples
BetweenSamples(t) ==
    a_pc[t] \in {"metric_done", "alerts", "status", "idle"}

\* C4: evaluated one after another, the events of each rule alternate trigger,
\* resolve, ..., starting with a trigger; for the rule on system.memory_usage
\* > 80 and the samples 70, 85, 90, 60 they are a trigger at 85, then a resolve
\* at 60.
C4_EventsAlternate ==
    /\ \A ri \in DOMAIN rules : Alternates(EventsOfRule(rules[ri].name))
    /\ (MemorySamples = <<70, 85, 90, 60>> /\ BetweenSamples(1)) =>
          EventValues(EventsOfRule("High Memory Usage"))
              = << <<"trigger", 85>>, <<"resolve", 60>> >>

C4_Witness ==
    /\ MemorySamples = <<70, 85, 90, 60>>
    /\ a_pc[1] = "idle"
    /\ Len(EventsOfRule("High Memory Usage")) = 2

\* the operator/threshold condition of a rule, as the rule states it
ConditionHolds(rule, value) ==
    \/ rule.operator = ">"  /\ value > rule.threshold
    \/ rule.operator = "<"  /\ value < rule.threshold
    \/ rule.operator = ">=" /\ value >= rule.threshold
    \/ rule.operator = "<=" /\ value <= rule.threshold
    \/ rule.operator = "==" /\ value = rule.threshold

\* the events a request logged for a rule since it began its current sample
EventsSinceSample(t, rule) ==
    SelectSeq(SubSeq(alert_events, a_snap[t].events + 1, Len(alert_events)),
              LAMBDA e : e.rule = rule.name /\ e.metric = rule.metric)

\* C5: after a sample is evaluated, each enabled rule on its metric is active
\* iff its condition holds for the sample; one trigger event was logged iff the
\* key was absent and the condition holds, one resolve event iff the key was
\* present and the condition fails, and no event otherwise.
C5_ActiveIffConditionHolds ==
    \A t \in callers : a_pc[t] = "metric_done" =>
        \A ri \in DOMAIN rules :
            LET rule == rules[ri]
                cond == ConditionHolds(rule, Metric(t).metric_value)
                was  == alert_key(rule) \in a_snap[t].keys
                evs  == EventTypes(EventsSinceSample(t, rule))
            IN  IF rule.enabled /\ rule.metric = Metric(t).metric_name
                THEN /\ (alert_key(rule) \in Keys(active_alerts)) <=> cond
                     /\ evs = IF cond /\ ~was THEN <<"trigger">>
                              ELSE IF ~cond /\ was THEN <<"resolve">>
                              ELSE <<>>
                ELSE evs = <<>>

C5_Witness ==
    /\ a_pc[1] = "metric_done"
    /\ \E ri \in DOMAIN rules :
          /\ rules[ri].enabled
          /\ rules[ri].metric = Metric(1).metric_name
          /\ alert_key(rules[ri]) \in Keys(active_alerts)
          /\ alert_key(rules[ri]) \notin a_snap[1].keys

\* two trigger events of the rule with no resolve event between them
DoubleTrigger(name) ==
    LET evs == EventsOfRule(name)
    IN  \E i \in 1..(Len(evs) - 1) : evs[i].type = "trigger" /\ evs[i + 1].type = "trigger"

\* C6 (as claimed): with status requests evaluated at once, no rule gets two
\* trigger events without a resolve event between them.
C6_NoDuplicateTrigger == \A ri \in DOMAIN rules : ~DoubleTrigger(rules[ri].name)

\* C7: the active-alert set holds at most one entry per rule key.
C7_OneAlertPerKey ==
    \A e1, e2 \in active_alerts : e1.key = e2.key => e1 = e2

C7_Witness ==
    \E ri \in DOMAIN rules :
        /\ DoubleTrigger(rules[ri].name)
        /\ Cardinality({ e \in active_alerts : e.key = alert_key(rules[ri]) }) = 1

----------------------------------------------------------------------------
\* Properties of the metrics collector (checked under SpecCollector)

\* C8: a start_collection call that finds the collector running returns at once:
\* it starts no loop thread, leaves self.thread and the flag as they are and
\* logs no 'Started metrics collection' event.
C8_StartWhileRunningIsNoOp ==
    [][ \A c \in CollCallers :
          (cc_pc[c] = "start_check" /\ c_running /\ cc_pc'[c] # "start_check") =>
              /\ cc_pc'[c] = "idle"
              /\ UNCHANGED <<loop_pc, c_thread, c_running, collector_events>> ]_vars

C8_Witness ==
    \E c \in CollCallers :
        /\ cc_result[c] = "noop"
        /\ cc_pc[c] = "idle"
        /\ Cardinality({ l \in LoopIds : Alive(l) }) = 1
        /\ collector_events = <<"Started metrics collection">>

\* C9 (as claimed, the sampling loop): a loop thread that was alive when
\* stop_collection ran begins no tick after it.
C9_NoTickAfterStop == \A l \in LoopIds : late_ticks[l] = 0

----------------------------------------------------------------------------
\* Properties of the worker's failure handling (checked under SpecLog)

\* C11 (as claimed): once the worker has let go of a record whose delivery
\* raised at one handler, the record has been delivered to every handler
\* registered after the failing one.
C11_LaterSinksStillServed ==
    \A i \in DOMAIN worker_errors :
        worker_errors[i][1] # w_record =>
            \A h \in (worker_errors[i][2] + 1)..Len(handlers) :
                worker_errors[i][1] \in Range(emitted[h])

\* the rest of the statement: the failure is caught, so the worker leaves its
\* loop only on the stop signal
C11_FailureDoesNotStopWorker == w_pc = "exited" => ~running

\* a state in which the record after a failing one has reached every handler
C11_LaterRecordDelivered ==
    \E i \in DOMAIN worker_errors :
        \A h \in 1..Len(handlers) : (worker_errors[i][1] + 1) \in Range(emitted[h])

----------------------------------------------------------------------------
\* Properties of collect_system_metrics (checked under SpecCollect)

\* the metric names of a batch
BatchNames(batch) == { batch[i].metric_name : i \in DOMAIN batch }

\* C12 (as claimed): a call made while exactly one source fails returns a
\* batch with a sample of every readable source: only the failing metric, and
\* the ones that have nothing to report, are missing.
C12_OnlyFailingMetricMissing ==
    [][ (sources' = sources /\ Cardinality({ n \in SourceNames : sources[n] = "fails" }) = 1) =>
            BatchNames(col_batch') = { n \in SourceNames : sources[n] = "ok" } ]_vars

\* what the call does keep: the samples of the readable sources read before
\* the failing one, in the order of reading, and one error message
C12_SourcesBeforeFailureKept ==
    [][ (sources' = sources /\ \E n \in SourceNames : sources[n] = "fails") =>
            /\ BatchNames(col_batch') \subseteq { n \in SourceNames : sources[n] = "ok" }
            /\ Len(col_errors') = 1 ]_vars

----------------------------------------------------------------------------
\* Properties of the background loops and of the metrics table (checked under
\* SpecStore and FairSpecStore)

\* the ticks of a loop thread in which gathering or storing failed
FailedTicks(l) == { e[2] : e \in { x \in Range(tick_errors) : x[1] = l } }

\* C13: no failure ends a loop. The worker leaves its loop only on the stop
\* signal, and after a handler raised it is back at the loop test and goes on
\* to the next get; a loop thread leaves _collection_loop only on the stop
\* signal, and after a tick in which gathering or storing failed the collector's
\* thread begins the next tick (up to the number of ticks of the run).
C13_FailureDoesNotStopLoops ==
    /\ [](w_pc = "exited" => ~running)
    /\ [](\A l \in LoopIds : loop_pc[l] = "exited" => ~c_running)
    /\ (worker_errors # <<>> /\ w_pc = "while") ~> (w_pc = "get")
    /\ (/\ loop_pc[c_thread] = "sleep"
        /\ loop_ticks[c_thread] \in FailedTicks(c_thread)
        /\ loop_ticks[c_thread] < MaxTicks) ~> (loop_pc[c_thread] = "tick")

C13_Witness ==
    /\ worker_errors # <<>>
    /\ w_pc = "get"
    /\ \E l \in LoopIds : \E k \in FailedTicks(l) :
           /\ \E e \in Range(tick_errors) : e[2] = k /\ e[3] = "Metric storage failed"
           /\ loop_ticks[l] > k
           /\ loop_pc[l] = "insert"

\* the rows of a sequence that a given store_metrics call inserted
RowsOf(rows, batch) == { i \in DOMAIN rows : rows[i].batch = batch }

\* C14: of every store_metrics call the table holds all the rows or none; a
\* call in which the connection, an INSERT or the commit failed has left none
\* and has returned to the loop; and a reader sees committed rows only, so no
\* row of a call that is still inserting.
C14_BatchWrittenAtomically ==
    /\ \A i \in DOMAIN store : Cardinality(RowsOf(store, store[i].batch)) = store[i].of
    /\ \A e \in Range(tick_errors) :
           e[3] = "Metric storage failed" =>
               /\ RowsOf(store, <<e[1], e[2]>>) = {}
               /\ loop_pc[e[1]] # "exited"
    /\ \A l \in LoopIds :
           loop_pc[l] = "insert" =>
               /\ RowsOf(store, <<l, loop_ticks[l]>>) = {}
               /\ RowsOf(q_result, <<l, loop_ticks[l]>>) = {}
    /\ Range(q_result) \subseteq Range(store)

C14_Witness ==
    \E l \in LoopIds :
        /\ loop_pc[l] = "sleep"
        /\ <<l, loop_ticks[l], "Metric storage failed">> \in Range(tick_errors)
        /\ l_txn[l] # <<>>
        /\ store # <<>>
        /\ q_result # <<>>

\* C16: the table is append-only. Every step keeps the committed rows as they
\* are, in place, and the only steps that change the table are the commits of
\* store_metrics, which append the rows of the call's batch; get_metrics
\* changes nothing.
C16_StoreAppendOnly ==
    [][ /\ IsPrefix(store, store')
        /\ store' # store =>
               \E l \in LoopIds :
                   /\ loop_pc[l] = "insert" /\ loop_pc'[l] = "sleep"
                   /\ Len(l_txn[l]) = Len(l_batch[l])
                   /\ store' = store \o l_txn[l]
        /\ q_result' # q_result => store' = store ]_vars

C16_Witness ==
    /\ \E i, j \in DOMAIN store : store[i].batch # store[j].batch
    /\ q_result # <<>>
    /\ Len(q_result) < Len(store)

----------------------------------------------------------------------------
\* Properties of get_metrics (checked under SpecQuery)

\* the rows of the metric whose sample was taken in [now - hours, now]
InWindow(rows, metric_name, hours) ==
    { r \in Range(rows) : /\ r.metric_name = metric_name
                          /\ utc_now - hours <= r.at
                          /\ r.at <= utc_now }

\* C15 (as claimed): whatever the table holds and whenever it is asked,
\* get_metrics(name, hours) returns exactly the rows of the metric that were
\* sampled in [now - hours, now], the most recent first.
C15_ExactlyTheWindowMostRecentFirst ==
    \A metric_name \in QueryNames : \A hours \in QueryHours :
        LET result == get_metrics(store, metric_name, hours)
        IN /\ Range(result) = InWindow(store, metric_name, hours)
           /\ \A i, j \in DOMAIN result : i < j => result[i].at >= result[j].at

\* what the query does keep: the rows are of the metric asked for and come the
\* most recent first
C15_NameAndOrder ==
    \A metric_name \in QueryNames : \A hours \in QueryHours :
        LET result == get_metrics(store, metric_name, hours)
        IN /\ \A i \in DOMAIN result : result[i].metric_name = metric_name
           /\ \A i, j \in DOMAIN result : i < j => result[i].at >= result[j].at

----------------------------------------------------------------------------
\* Properties of the rotating file handler (checked under SpecRotate)

\* the files of a directory, by their order of creation
Gens(dir) == { dir[i].gen : i \in DOMAIN dir }

\* C17: the directory never holds more than backup_count + 1 log files; and a
\* write that would take system.log over max_log_size makes it system.log.1,
\* starts a new system.log with the line written, moves every other backup up
\* by one, and removes a file only when the backups are complete, the file
\* removed being the oldest.
C17_RetainedFilesBounded ==
    /\ [](Cardinality(DOMAIN log_dir) <= backup_count + 1)
    /\ [][ (/\ file_writes' = file_writes + 1
            /\ FileSize(log_dir[0].lines) + LineSize(last_line') > max_log_size) =>
               /\ log_dir'[1] = log_dir[0]
               /\ log_dir'[0].lines = <<last_line'>>
               /\ \A g \in Gens(log_dir) : log_dir'[0].gen > g
               /\ \A i \in DOMAIN log_dir : (0 < i /\ i < backup_count) => log_dir'[i + 1] = log_dir[i]
               /\ \A g \in Gens(log_dir) \ Gens(log_dir') :
                      /\ Cardinality(DOMAIN log_dir) = backup_count + 1
                      /\ \A h \in Gens(log_dir) : g <= h ]_vars

C17_Witness ==
    /\ Cardinality(DOMAIN log_dir) = backup_count + 1
    /\ \A g \in Gens(log_dir) : g > 1
    /\ log_dir[0].lines = <<last_line>>

----------------------------------------------------------------------------
\* Properties of search_logs (checked under SpecSearch)

\* a line the formatter wrote: a record object with the expected fields
WellFormed(line) == line.json = "object" /\ line.timestamp # <<>> /\ line.level # "None"

\* the entry passes every filter that was supplied
Passes(line, f) ==
    /\ f.level = "None" \/ line.level = f.level
    /\ f.start_time = <<>> \/ fromisoformat(line.timestamp[1]) >= f.start_time[1]
    /\ f.end_time = <<>> \/ fromisoformat(line.timestamp[1]) <= f.end_time[1]
    /\ Contains(f.query, line.message)

NoFilters == [query |-> <<>>, start_time |-> <<>>, end_time |-> <<>>, level |-> "None"]

\* C18: search_logs("", level=None) returns every well-formed entry of
\* system.log, in file order, whatever malformed lines stand among them.
C18_MalformedLinesSkipped ==
    (search.called /\ search.f = NoFilters) =>
        search.results = SelectSeq(log_dir[0].lines, WellFormed)

\* C18, the part that holds: a line that is not JSON is skipped, and the
\* well-formed entries around it are returned
C18_InvalidJsonSkipped ==
    (/\ search.called /\ search.f = NoFilters
     /\ \A i \in DOMAIN log_dir[0].lines :
            WellFormed(log_dir[0].lines[i]) \/ log_dir[0].lines[i].json = "invalid") =>
        search.results = SelectSeq(log_dir[0].lines, WellFormed)

\* C19: search_logs returns exactly the entries of system.log that pass all
\* the filters supplied, in file order, and nothing of system.log.1.
C19_ExactlyTheMatchingEntries ==
    search.called =>
        search.results =
            SelectSeq(log_dir[0].lines, LAMBDA line : WellFormed(line) /\ Passes(line, search.f))

\* C19 for a file in which every line is a record the formatter wrote
C19_WhenEveryLineIsARecord ==
    (/\ search.called
     /\ \A i \in DOMAIN log_dir[0].lines : WellFormed(log_dir[0].lines[i])) =>
        /\ ~search.raised
        /\ search.results =
               SelectSeq(log_dir[0].lines, LAMBDA line : Passes(line, search.f))

----------------------------------------------------------------------------
\* Properties of cleanup_old_logs (checked under SpecSweep)

\* the files of the directory last modified before the cutoff
OldFiles(dir, cutoff_time) == { i \in DOMAIN dir : dir[i].mtime < cutoff_time }

\* the files the sweep removed
Deleted == DOMAIN sweep.before \ DOMAIN log_dir

\* the old files the file system refused to delete
Refused == { i \in OldFiles(sweep.before, sweep.cutoff_time) : sweep.fault = <<i, "unlink">> }

\* C20: cleanup_old_logs(days) deletes exactly the files last modified before
\* now - days (all of them but one the file system refuses to delete), leaves
\* every other file as it was, and returns the number of files it deleted.
C20_DeletesExactlyTheOldFiles ==
    sweep.called =>
        /\ Deleted = OldFiles(sweep.before, sweep.cutoff_time) \ Refused
        /\ \A i \in DOMAIN log_dir : log_dir[i] = sweep.before[i]
        /\ sweep.result = <<Cardinality(Deleted)>>

\* C20 for a sweep in which every file can be examined
C20_WhenEveryFileIsExamined ==
    (sweep.called /\ (sweep.fault = <<>> \/ sweep.fault[2] # "stat")) =>
        /\ Deleted = OldFiles(sweep.before, sweep.cutoff_time) \ Refused
        /\ \A i \in DOMAIN log_dir : log_dir[i] = sweep.before[i]
        /\ sweep.result = <<Cardinality(Deleted)>>

----------------------------------------------------------------------------
\* Properties of the status response (checked under SpecAlertConc)

\* C21: in every success response of /api/system_status, status is "healthy"
\* iff the alerts list of that response is empty, and "warning" otherwise, also
\* while other status requests are evaluated at the same time.
C21_StatusMatchesAlerts ==
    \A t \in callers :
        a_pc[t] = "status" =>
            Response(t).status = IF Response(t).alerts = {} THEN "healthy" ELSE "warning"

----------------------------------------------------------------------------
\* Properties of rules on one metric (checked under SpecAlert)

\* the entries a step adds to or removes from the active alerts
Changed == (active_alerts' \ active_alerts) \cup (active_alerts \ active_alerts')

\* C22: rules on the same metric are evaluated independently. Every change of
\* the active alerts is made for the rule under evaluation and follows that
\* rule's own condition on the sample: the rule is active afterwards when the
\* condition holds and not active when it does not, and the entries of every
\* other rule stay as they are.
C22_RulesIndependent ==
    [][ \A e \in Changed :
          \E t \in callers :
              /\ a_pc[t] \in {"trig_set", "res_del"}
              /\ e.rule = a_ri[t]
              /\ e.key = alert_key(Rule(t))
              /\ (e.key \in Keys(active_alerts')) <=>
                     ConditionHolds(Rule(t), Metric(t).metric_value)
              /\ \A o \in active_alerts : o.rule # a_ri[t] => o \in active_alerts' ]_vars

\* the rules on system.memory_usage > 80 and > 90 are both active for a sample 95
C22_Witness ==
    \E e1, e2 \in active_alerts :
        /\ rules[e1.rule].name = "High Memory Usage"
        /\ rules[e2.rule].name = "Critical Memory Usage"
        /\ rules[e1.rule].metric = rules[e2.rule].metric
        /\ e1.current_value = 95
        /\ e2.current_value = 95

----------------------------------------------------------------------------
\* The callers of check_alerts

\* C23: every sampling tick of the collector hands its batch to the alert
\* manager: when the loop sleeps after a tick, the samples of the tick's batch
\* have been evaluated (checked under SpecStore).
C23_TickHandsBatchToAlertManager ==
    \A l \in LoopIds :
        (loop_pc[l] = "sleep" /\ loop_ticks[l] > 0) =>
            \A i \in DOMAIN l_batch[l] :
                \E j \in DOMAIN samples_seen : samples_seen[j] = l_batch[l][i]

\* C23, the other call site: a status query evaluates the samples it collected
\* (checked under SpecAlert)
C23_StatusQueryEvaluates ==
    \A t \in callers :
        a_pc[t] \in {"alerts", "status"} =>
            \A i \in DOMAIN a_batch[t] :
                \E j \in DOMAIN samples_seen : samples_seen[j] = a_batch[t][i]

----------------------------------------------------------------------------
\* Diagnostics of the queue (checked under SpecLog)

\* the counters get_log_stats reports
StatCounters ==
    [queue_size |-> get_log_stats.queue_size,
     log_files |-> Cardinality(DOMAIN get_log_stats.log_files)]

\* C24: every record rejected because the queue was full is counted: when a
\* record is dropped, one of the counters the logger reports goes up by one.
C24_DropsCounted ==
    [][ Len(dropped') = Len(dropped) + 1 =>
            \E f \in DOMAIN StatCounters : StatCounters'[f] = StatCounters[f] + 1 ]_vars

----------------------------------------------------------------------------
\* Properties of the alert events and keys under configured rules (checked
\* under SpecRules)

\* the level the severity of a rule stands for
LevelOf == [s \in {"info", "warning", "critical"} |->
               IF s = "info" THEN "INFO" ELSE IF s = "warning" THEN "WARNING" ELSE "CRITICAL"]

\* the severity of the rule an event was logged for
SeverityOf(e) ==
    LET ri == CHOOSE i \in DOMAIN rules : rules[i].name = e.rule /\ rules[i].metric = e.metric
    IN  rules[ri].severity

\* C25: a trigger event is logged at the level of the rule's severity, info at
\* INFO, warning at WARNING and critical at CRITICAL; a resolve event is logged
\* at INFO.
C25_LevelFollowsSeverity ==
    \A i \in DOMAIN alert_events :
        alert_events[i].level =
            IF alert_events[i].type = "trigger" THEN LevelOf[SeverityOf(alert_events[i])]
            ELSE "INFO"

\* C25 for the severities warning and critical, and for the resolve events
C25_WarningAndCritical ==
    \A i \in DOMAIN alert_events :
        (alert_events[i].type = "resolve" \/ SeverityOf(alert_events[i]) # "info") =>
            alert_events[i].level =
                IF alert_events[i].type = "trigger" THEN LevelOf[SeverityOf(alert_events[i])]
                ELSE "INFO"

\* the (rule name, metric name) pair of a rule
Pair(rule) == <<rule.name, rule.metric>>

\* C30: two rules with different (rule name, metric name) pairs never share an
\* ActiveAlert entry: the key of an entry is the key of no rule with another
\* pair, and after a sample is evaluated every enabled rule on its metric is
\* active iff its condition holds, whatever the other rules did.
C30_NoSharedEntry ==
    /\ \A e \in active_alerts : \A ri \in DOMAIN rules :
           alert_key(rules[ri]) = e.key => Pair(rules[ri]) = Pair(rules[e.rule])
    /\ \A t \in callers : a_pc[t] = "metric_done" =>
           \A ri \in DOMAIN rules :
               (rules[ri].enabled /\ rules[ri].metric = Metric(t).metric_name) =>
                   ((\E e \in active_alerts : e.rule = ri)
                      <=> ConditionHolds(rules[ri], Metric(t).metric_value))

\* the trigger of rule 3 is suppressed by the alert of rule 2
C30_TriggerSuppressed ==
    /\ a_pc[1] = "metric_done"
    /\ Metric(1).metric_name = "total" /\ Metric(1).metric_value = 9
    /\ \A e \in active_alerts : e.rule # 3

\* the alert of rule 2 is removed by a resolve of rule 3
C30_OtherAlertRemoved ==
    /\ a_pc[1] = "metric_done"
    /\ Metric(1).metric_name = "total" /\ Metric(1).metric_value = 1
    /\ a_snap[1].keys # {}
    /\ active_alerts = {}

----------------------------------------------------------------------------
\* Failures during a retention sweep (checked under SpecSweep)

\* the sweep met its failure: a stat() that raises is met whenever the file is
\* reached, an unlink() that raises only when the file is old
FailedFile ==
    IF sweep.fault = <<>> THEN {}
    ELSE IF sweep.fault[2] = "stat" \/ sweep.fault[1] \in OldFiles(sweep.before, sweep.cutoff_time)
         THEN {sweep.fault[1]}
    ELSE {}

\* the failure was logged and the sweep went on: every other old file is
\* deleted, and the count returned leaves the failed file out
SweepWentOn ==
    /\ sweep.result # <<>>
    /\ \A f \in FailedFile : \E i \in DOMAIN sweep.log : sweep.log[i] = <<"ERROR", f>>
    /\ Deleted = OldFiles(sweep.before, sweep.cutoff_time) \ FailedFile
    /\ sweep.result = <<Cardinality(Deleted)>>

\* C26: a failure on one file during a sweep, be it that the file cannot be
\* examined or that it cannot be deleted, is logged and does not abort the
\* sweep.
C26_FailureDoesNotAbortSweep == (sweep.called /\ FailedFile # {}) => SweepWentOn

\* C26 for a file that cannot be deleted
C26_WhenDeletionFails ==
    (sweep.called /\ FailedFile # {} /\ sweep.fault[2] = "unlink") => SweepWentOn

----------------------------------------------------------------------------
\* The number of sampling loops (checked under SpecCollector)

\* the loop threads that have not left _collection_loop
AliveLoops == { l \in LoopIds : Alive(l) }

\* C27: at most one sampling loop is alive at any time, after any sequence of
\* start_collection and stop_collection calls.
C27_AtMostOneLoopAlive == Cardinality(AliveLoops) <= 1

\* two loops alive, one that a stop_collection found alive and one that was
\* started after that stop_collection
C27_TwoLoopsAfterStopStart ==
    \E l1, l2 \in AliveLoops : stop_seen[l1] /\ ~stop_seen[l2]

----------------------------------------------------------------------------
\* Requests that fail because of each other (checked under SpecAlertConc)

\* C28: with several status requests in flight none of them ends in the error
\* response: no `del` of a key that is gone, and no iteration over a dict whose
\* size changed.
C28_NoRequestFails == \A t \in callers : a_pc[t] # "error"

\* the iteration of get_active_alerts is under way while the dict has another
\* size than when it began
C28_SizeChangedDuringIteration ==
    \E t \in callers :
        a_pc[t] = "alerts" /\ Cardinality(active_alerts) # Cardinality(a_resp[t].iter)

----------------------------------------------------------------------------
\* The entry of an active alert (checked under SpecAlertConc)

\* the trigger events logged for a rule
TriggersOf(name) == SelectSeq(EventsOfRule(name), LAMBDA e : e.type = "trigger")

\* C29: triggered_at and current_value of an ActiveAlert are those of the
\* sample that triggered it; while the alert stays active no step changes the
\* entry, and get_active_alerts reports the entry's values, the current_value
\* being the one of the rule's latest trigger event.
C29_EntryFixedAtTrigger ==
    /\ [][ /\ \A e \in active_alerts : e.key \in Keys(active_alerts') => e \in active_alerts'
           /\ \A e \in active_alerts' \ active_alerts :
                  \E t \in callers : /\ e.rule = a_ri[t]
                                     /\ e.current_value = Metric(t).metric_value
                                     /\ e.triggered_at = Metric(t).timestamp ]_vars
    /\ [](\A t \in callers : a_pc[t] = "status" =>
            \A v \in a_resp[t].alerts :
                /\ \E e \in active_alerts :
                       /\ v.name = rules[e.rule].name
                       /\ v.current_value = e.current_value
                       /\ v.triggered_at = isoformat(e.triggered_at)
                /\ TriggersOf(v.name) # <<>>
                /\ v.current_value = TriggersOf(v.name)[Len(TriggersOf(v.name))].current_value)

====
